---------------------------- MODULE Spec2Model ----------------------------
(***************************************************************************)
(* MapRAG front end (main.js): the request orchestrator (handleSearch,     *)
(* loadAllPins, handleUpdateMap and the delayed reload timer), the marker  *)
(* and overlay state, the notices, the sidebar's result list and the      *)
(* feedback forms of its cards.  Spec is the orchestrator with its         *)
(* requests; BatchSpec is plotMarkers and updateSidebar applied to one     *)
(* batch of records; FeedbackSpec is the forms of one rendered list, and   *)
(* LoadingFeedbackSpec the same forms while the Update Map button is used. *)
(* FairSpec and TimerFairSpec add to Spec that requests settle and that    *)
(* due timers run.                                                         *)
(*                                                                         *)
(* JavaScript runs each handler to its next await without interruption, so *)
(* an action is one such run: the synchronous start of a handler, or the   *)
(* continuation that runs when an awaited request resolves or rejects.     *)
(* A request in flight carries the locals its continuation reads.          *)
(*                                                                         *)
(* Strings that the code parses (input values, coordinates) are sequences  *)
(* of one-character strings.  Numbers are integers counting tenths, so     *)
(* 33.5 is 335; NaN is a separate value.  The map viewport (fitBounds,     *)
(* setView), the button caption and CSS classes are not modelled.  Of the   *)
(* map's layers the model keeps the overlays (circles and circle markers); *)
(* a location marker is on the map from its push onto markers until        *)
(* clearMarkers empties the array.                                         *)
(***************************************************************************)
EXTENDS Integers, Sequences, FiniteSets, TLC

VARIABLES
    domLoaded,              \* DOMContentLoaded has run (listeners installed)
    isLoading,              \* main.js:27
    loadingIndicatorHidden, \* #loadingIndicator has class "hidden"
    searchBtnDisabled,      \* #searchBtn.disabled
    updateMapBtnDisabled,   \* #updateMapBtn.disabled
    markers,                \* main.js:24, in push order
    searchCircle,           \* main.js:25
    searchLocationMarker,   \* main.js:26
    overlayLayers,          \* the circle and circle-marker layers on the map
    lastSearchLocation,     \* main.js:28
    notice,                 \* the .error-message / .success-message element
    sidebar,                \* #sidebarContent
    requests,               \* axios calls awaiting their response
    timers,                 \* pending setTimeout(loadAllPins, 1000) callbacks
    nextId,                 \* number of the next handler invocation
    lastEvent               \* the step taken last, with its inputs

vars == <<domLoaded, isLoading, loadingIndicatorHidden, searchBtnDisabled,
          updateMapBtnDisabled, markers, searchCircle, searchLocationMarker,
          overlayLayers, lastSearchLocation, notice, sidebar, requests, timers, nextId,
          lastEvent>>

loadingVars == <<isLoading, loadingIndicatorHidden, searchBtnDisabled,
                 updateMapBtnDisabled>>
mapVars == <<markers, searchCircle, searchLocationMarker, overlayLayers>>

(***************************************************************************)
(* Bounds of the model.                                                    *)
(***************************************************************************)
\* handler invocations that start a request (loads, searches, updates)
MaxOps == 5
\* records in one response of GET /data or POST /query
MaxLen == 1
\* records in one batch passed to plotMarkers or updateSidebar directly
MaxBatch == 3

(***************************************************************************)
(* Numbers and strings.                                                    *)
(***************************************************************************)
NaN == [nan |-> TRUE, v |-> 0]
Num(n) == [nan |-> FALSE, v |-> n]
isNaN(x) == x.nan

Null == [null |-> TRUE]

IsDigit(c) == c \in {"0", "1", "2", "3", "4", "5", "6", "7", "8", "9"}
DigitVal(c) ==
    CASE c = "0" -> 0 [] c = "1" -> 1 [] c = "2" -> 2 [] c = "3" -> 3
      [] c = "4" -> 4 [] c = "5" -> 5 [] c = "6" -> 6 [] c = "7" -> 7
      [] c = "8" -> 8 [] c = "9" -> 9

IsWhiteSpace(c) == c = " "

RECURSIVE TrimStart(_)
TrimStart(s) ==
    IF s # <<>> /\ IsWhiteSpace(Head(s)) THEN TrimStart(Tail(s)) ELSE s

RECURSIVE TrimEnd(_)
TrimEnd(s) ==
    IF s # <<>> /\ IsWhiteSpace(s[Len(s)])
    THEN TrimEnd(SubSeq(s, 1, Len(s) - 1))
    ELSE s

\* String.prototype.trim
trim(s) == TrimEnd(TrimStart(s))

RECURSIVE DigitPrefixLen(_)
DigitPrefixLen(s) ==
    IF s # <<>> /\ IsDigit(Head(s)) THEN 1 + DigitPrefixLen(Tail(s)) ELSE 0

RECURSIVE DigitsValue(_)
DigitsValue(s) ==
    IF s = <<>> THEN 0
    ELSE DigitsValue(SubSeq(s, 1, Len(s) - 1)) * 10 + DigitVal(s[Len(s)])

\* parseFloat: leading white space is skipped, then an optional sign, then
\* the longest decimal literal that follows; what comes after is ignored and
\* no literal at all gives NaN.  The result is in tenths: the strings of the
\* model carry at most one fractional digit, and no exponent.
parseFloat(str) ==
    LET t      == TrimStart(str)
        signed == t # <<>> /\ Head(t) \in {"-", "+"}
        neg    == t # <<>> /\ Head(t) = "-"
        u      == IF signed THEN Tail(t) ELSE t
        n      == DigitPrefixLen(u)
        rest   == SubSeq(u, n + 1, Len(u))
        r2     == IF rest # <<>> /\ Head(rest) = "." THEN Tail(rest) ELSE <<>>
        m      == DigitPrefixLen(r2)
        mag    == DigitsValue(SubSeq(u, 1, n)) * 10
                    + (IF m > 0 THEN DigitVal(r2[1]) ELSE 0)
    IN  IF n = 0 /\ m = 0 THEN NaN ELSE Num(IF neg THEN 0 - mag ELSE mag)

\* parseFloat of a property that may be absent (undefined gives NaN)
parseFloatOf(rec, field) ==
    IF field \in DOMAIN rec THEN parseFloat(rec[field]) ELSE NaN


(***************************************************************************)
(* The data the environment supplies: the values typed into the two        *)
(* inputs, Nominatim's answers and the records of the webhook.             *)
(***************************************************************************)
AddressInputs ==
    { <<>>, <<" ", " ">>, <<" ", "B", "h", "m", " ">> }

RadiusInputs ==
    { <<>>, <<"a", "b", "c">>, <<"0">>, <<"-", "2", ".", "5">>, <<"1", "0">> }

\* first elements of Nominatim's response array (lat and lon are strings);
\* the second one carries no display_name
GeoBham == [lat |-> <<"3", "3", ".", "5">>,
            lon |-> <<"-", "8", "6", ".", "8">>,
            display_name |-> <<"B", "i", "r", "m">>]
GeoHsv  == [lat |-> <<"3", "4", ".", "7">>,
            lon |-> <<"-", "8", "6", ".", "6">>]

\* response.data of the geocoding request: limit=1, so at most one element
GeocodeResponses == { <<>>, <<GeoBham>>, <<GeoHsv>> }

\* a record with the coordinate fields plotMarkers reads
RecA == [latitude  |-> <<"3", "3", ".", "6">>,
         longitude |-> <<"-", "8", "6", ".", "8">>,
         Name |-> "A", serial |-> "7"]
\* a record whose latitude does not parse
RecBad == [latitude  |-> <<"a", "b", "c">>,
           longitude |-> <<"-", "8", "6", ".", "8">>,
           Name |-> "Bad"]
\* a record that names its coordinates lat / lon, wrapped under json
RecAlias == [json |-> [lat |-> <<"3", "2", ".", "4">>,
                       lon |-> <<"-", "8", "6", ".", "3">>,
                       name |-> "C"]]

Records == { RecA, RecBad, RecAlias }

RECURSIVE SeqsUpTo(_, _)
SeqsUpTo(S, n) ==
    IF n = 0 THEN { <<>> }
    ELSE LET shorter == SeqsUpTo(S, n - 1)
         IN  shorter \cup { Append(q, x) : q \in shorter, x \in S }

\* response.data of GET /data and POST /query: arrays of records
DataResponses == SeqsUpTo(Records, MaxLen)

\* more records for the batches passed to plotMarkers and updateSidebar
\* directly: one at the place of RecA, one whose latitude parses to 95
\* degrees, one without coordinates
RecTwin == [latitude  |-> <<"3", "3", ".", "6">>,
            longitude |-> <<"-", "8", "6", ".", "8">>,
            Name |-> "B"]
RecFar == [latitude  |-> <<"9", "5", ".", "0">>,
           longitude |-> <<"-", "8", "6", ".", "8">>,
           Name |-> "Far"]
RecNone == [Name |-> "D"]
\* a record that carries its coordinates twice, capitalised at the place of
\* RecA and in lower case at the place of RecAlias
RecMixed == [Latitude  |-> <<"3", "3", ".", "6">>,
             Longitude |-> <<"-", "8", "6", ".", "8">>,
             lat |-> <<"3", "2", ".", "4">>,
             lon |-> <<"-", "8", "6", ".", "3">>,
             Name |-> "E"]

\* a record whose own serial is the string of a position in the batch
RecSecond == [Name |-> "S", serial |-> "2"]

BatchRecords ==
    Records \cup { RecTwin, RecFar, RecNone, RecMixed, RecSecond }
Batches == SeqsUpTo(BatchRecords, MaxBatch)

(***************************************************************************)
(* Markers and overlays.                                                   *)
(***************************************************************************)
\* const rec = raw.json || raw
unwrap(raw) == IF "json" \in DOMAIN raw THEN raw.json ELSE raw

\* a || b || ... || dflt over string properties: the first that is present
\* and not the empty string
RECURSIVE firstTruthy(_, _, _)
firstTruthy(rec, fields, dflt) ==
    IF fields = <<>> THEN dflt
    ELSE IF Head(fields) \in DOMAIN rec /\ rec[Head(fields)] # ""
         THEN rec[Head(fields)]
         ELSE firstTruthy(rec, Tail(fields), dflt)

\* ${a || b} in a template literal: when no field is truthy the chain
\* yields undefined, which the literal writes as the word "undefined"
interpolate(rec, fields) == firstTruthy(rec, fields, "undefined")

\* the texts bindPopup is given, after the name line
popupOf(rec) ==
    [businessName |-> firstTruthy(rec, <<"business_name", "Business Name">>, ""),
     type         |-> firstTruthy(rec, <<"type", "Type">>, ""),
     address      |-> firstTruthy(rec, <<"address", "Address">>, ""),
     emailHref    |-> interpolate(rec, <<"email", "Email">>),
     emailText    |-> interpolate(rec, <<"email", "Email">>),
     contact      |-> firstTruthy(rec, <<"contact", "Contact">>, ""),
     rates        |-> firstTruthy(rec, <<"rates", "Rates">>, "")]

\* L.marker([lat, lon]) with its popup
newMarker(lat, lon, rec) ==
    [lat |-> lat, lon |-> lon,
     popupName |-> firstTruthy(rec, <<"name", "Name">>, "Unnamed"),
     popup |-> popupOf(rec)]

\* a forEach that ends at the first record whose coordinates do not parse
RECURSIVE plotEachStopAtBad(_, _)
plotEachStopAtBad(ms, data) ==
    IF data = <<>> THEN ms
    ELSE LET rec == unwrap(Head(data))
             lat == parseFloatOf(rec, "latitude")
             lon == parseFloatOf(rec, "longitude")
         IN  IF isNaN(lat) \/ isNaN(lon)
             THEN ms
             ELSE plotEachStopAtBad(Append(ms, newMarker(lat, lon, rec)),
                                    Tail(data))

\* the forEach of plotMarkers: one marker per record whose latitude and
\* longitude parse, pushed onto markers
RECURSIVE plotEach(_, _)
plotEach(ms, data) ==
    IF data = <<>> THEN ms
    ELSE LET rec == unwrap(Head(data))
             lat == parseFloatOf(rec, "latitude")
             lon == parseFloatOf(rec, "longitude")
         IN  plotEach(IF isNaN(lat) \/ isNaN(lon)
                      THEN ms
                      ELSE Append(ms, newMarker(lat, lon, rec)),
                      Tail(data))

\* plotMarkers(data): the value of markers afterwards, given it before
plotMarkers(ms, data) == IF data = <<>> THEN ms ELSE plotEach(ms, data)

\* clearMarkers(): the value of markers afterwards
clearMarkers == <<>>

\* map.removeLayer(layer): the layers without that object
RECURSIVE removeLayer(_, _)
removeLayer(layers, layer) ==
    IF layers = <<>> THEN <<>>
    ELSE IF Head(layers) = layer THEN Tail(layers)
    ELSE <<Head(layers)>> \o removeLayer(Tail(layers), layer)

\* layer.addTo(map)
addTo(layers, layer) == Append(layers, layer)

\* drawSearchCircle: the previous circle is removed and searchCircle is the
\* new one; radiusMiles is in tenths of a mile, the radius in millimetres
drawSearchCircle(lat, lon, radiusMiles) ==
    [lat |-> lat, lon |-> lon, radius |-> radiusMiles.v * 160934]

\* drawSearchCircle that adds the new circle and leaves the old one
drawSearchCircleLayersKeepOld(layers, lat, lon, radiusMiles) ==
    addTo(layers, drawSearchCircle(lat, lon, radiusMiles))

\* the overlays on the map after drawSearchCircle
drawSearchCircleLayers(layers, lat, lon, radiusMiles) ==
    addTo(IF searchCircle # Null THEN removeLayer(layers, searchCircle)
          ELSE layers,
          drawSearchCircle(lat, lon, radiusMiles))

\* highlightSearchLocation: likewise for searchLocationMarker
highlightSearchLocation(lat, lon, label) ==
    [lat |-> lat, lon |-> lon, label |-> label]

\* the overlays on the map after highlightSearchLocation
highlightSearchLocationLayers(layers, lat, lon, label) ==
    addTo(IF searchLocationMarker # Null
          THEN removeLayer(layers, searchLocationMarker)
          ELSE layers,
          highlightSearchLocation(lat, lon, label))

(***************************************************************************)
(* Notices.                                                                *)
(***************************************************************************)
NoNotice == [kind |-> "none", text |-> ""]
MsgEnterAddress == "Please enter an address"
MsgValidRadius == "Please enter a valid radius (greater than 0)"
MsgAddressNotFound ==
    "Could not find the specified address. Please try a different address."
MsgNoLocations == "No locations found within that radius."
MsgSearchFailed == "Search failed. Please try again."
MsgLoadFailed ==
    "Failed to load locations. Please check your connection and try again."
MsgUpdateFailed == "Failed to trigger map update. Please try again."
MsgUpdateTriggered == "Map update triggered successfully!"

\* showError(message): the element that replaces any notice on the page
showError(message) == [kind |-> "error", text |-> message]
\* showSuccess(message)
showSuccess(message) == [kind |-> "success", text |-> message]

(***************************************************************************)
(* The sidebar's result list.                                              *)
(***************************************************************************)
\* a ?? b ?? ...: the first property that is present, or "absent"
RECURSIVE firstPresent(_, _)
firstPresent(rec, fields) ==
    IF fields = <<>> THEN [absent |-> TRUE]
    ELSE IF Head(fields) \in DOMAIN rec
         THEN [absent |-> FALSE, value |-> rec[Head(fields)]]
         ELSE firstPresent(rec, Tail(fields))

parseFloatOfFirst(rec, fields) ==
    LET p == firstPresent(rec, fields)
    IN  IF p.absent THEN NaN ELSE parseFloat(p.value)

\* Number(calculateDistance(lat1, lng1, lat2, lng2).toFixed(1)) in tenths of
\* a mile: the haversine formula with R = 3959, evaluated for the
\* coordinates of the model (all in tenths of a degree)
calculateDistance(lat1, lng1, lat2, lng2) ==
    LET k == <<lat1, lng1, lat2, lng2>>
    IN  CASE k = <<335, -868, 336, -868>> -> 69
          [] k = <<335, -868, 324, -863>> -> 813
          [] k = <<347, -866, 336, -868>> -> 769
          [] k = <<347, -866, 324, -863>> -> 1599
          [] k = <<335, -868, 950, -868>> -> 42495
          [] k = <<347, -866, 950, -868>> -> 41666

\* the callback measuring from the default map centre (33.5, -86.8) when
\* there is no search location
processResultDefaultCenter(raw, index, loc) ==
    LET rec    == unwrap(raw)
        locLat == parseFloatOfFirst(rec, <<"latitude", "lat", "Latitude", "Lat">>)
        locLon == parseFloatOfFirst(rec, <<"longitude", "lon", "Longitude", "Lon">>)
        from   == IF loc # Null THEN loc ELSE [lat |-> Num(335), lon |-> Num(-868)]
    IN  [index    |-> index + 1,
         serial   |-> firstTruthy(rec, <<"serial", "Serial", "Serial No.",
                                         "Serial No", "serial_no">>,
                                  ToString(index + 1)),
         name     |-> firstTruthy(rec, <<"name", "Name">>, "Unnamed"),
         distance |-> IF ~isNaN(locLat) /\ ~isNaN(locLon)
                      THEN Num(calculateDistance(from.lat.v, from.lon.v,
                                                 locLat.v, locLon.v))
                      ELSE NaN]

\* the callback of results.map in updateSidebar; index is the 0-based
\* position, loc the value of lastSearchLocation; a distance of null is NaN
\* here
processResult(raw, index, loc) ==
    LET rec    == unwrap(raw)
        locLat == parseFloatOfFirst(rec, <<"latitude", "lat", "Latitude", "Lat">>)
        locLon == parseFloatOfFirst(rec, <<"longitude", "lon", "Longitude", "Lon">>)
    IN  [index    |-> index + 1,
         serial   |-> firstTruthy(rec, <<"serial", "Serial", "Serial No.",
                                         "Serial No", "serial_no">>,
                                  ToString(index + 1)),
         name     |-> firstTruthy(rec, <<"name", "Name">>, "Unnamed"),
         distance |-> IF loc # Null /\ ~isNaN(locLat) /\ ~isNaN(locLon)
                      THEN Num(calculateDistance(loc.lat.v, loc.lon.v,
                                                 locLat.v, locLon.v))
                      ELSE NaN]

processResults(results, loc) ==
    [i \in 1..Len(results) |-> processResult(results[i], i - 1, loc)]

\* a comparator that counts a card without a distance as 0
staysBeforeNullAsZero(a, b) ==
    (IF isNaN(a.distance) THEN 0 ELSE a.distance.v)
        <= (IF isNaN(b.distance) THEN 0 ELSE b.distance.v)

\* the comparator of the sort: a card without a distance counts as Infinity;
\* TRUE when a must stay before b (distA - distB <= 0, or NaN for two
\* Infinities, which sort treats as 0)
staysBefore(a, b) ==
    \/ isNaN(b.distance)
    \/ ~isNaN(a.distance) /\ a.distance.v <= b.distance.v

\* Array.prototype.sort is stable: insertion after the last element that
\* stays before the new one
RECURSIVE insertCard(_, _)
insertCard(sorted, c) ==
    IF sorted = <<>> THEN <<c>>
    ELSE LET last == sorted[Len(sorted)]
         IN  IF staysBefore(last, c) THEN Append(sorted, c)
             ELSE Append(insertCard(SubSeq(sorted, 1, Len(sorted) - 1), c), last)

RECURSIVE sortCards(_)
sortCards(cards) ==
    IF cards = <<>> THEN <<>>
    ELSE insertCard(sortCards(SubSeq(cards, 1, Len(cards) - 1)),
                    cards[Len(cards)])

\* a sort that is not followed by the re-numbering
renumberSkipped(cards) == cards

\* a re-numbering that also makes the new rank the card's serial
renumberWithSerial(cards) ==
    [i \in 1..Len(cards) |->
        [cards[i] EXCEPT !.index = i, !.serial = ToString(i)]]

\* processedResults.forEach((result, index) => result.index = index + 1)
renumber(cards) == [i \in 1..Len(cards) |-> [cards[i] EXCEPT !.index = i]]

SidebarInitial == [view |-> "initial", radius |-> NaN, cards |-> <<>>]

\* updateStars(starsContainer, rating): the stars that end up selected
updateStars(rating) == { k \in 1..5 : k <= rating }

\* the text the feedback display shows in place of an empty feedback
NoFeedbackYet ==
    <<"N", "o", " ", "f", "e", "e", "d", "b", "a", "c", "k", " ", "y", "e", "t">>

\* the card built for one processed result: what it shows of the result,
\* the feedback display (the records of the model carry no rating and no
\* feedback: 0 stands for "Not rated yet"), the hidden feedback form and
\* the variables of the card's closures
createCard(result) ==
    [index    |-> result.index,
     serial   |-> result.serial,
     name     |-> result.name,
     distance |-> result.distance,
     ratingDisplay      |-> 0,
     feedbackDisplay    |-> NoFeedbackYet,
     writeBtnShown      |-> TRUE,
     formOpen           |-> FALSE,
     selectedRating     |-> 0,
     starsSelected      |-> updateStars(0),
     text               |-> <<>>,
     textareaDisabled   |-> FALSE,
     starsPointerEvents |-> "auto",
     submitDisabled     |-> FALSE,
     submitCaption      |-> "Submit"]

\* processedResults.forEach(result => ... sidebarContent.appendChild(card))
createCards(results) == [i \in 1..Len(results) |-> createCard(results[i])]

\* updateSidebar(results, radius): the content of the sidebar afterwards
updateSidebar(results, radius, loc) ==
    IF results = <<>>
    THEN [view |-> "empty", radius |-> NaN, cards |-> <<>>]
    ELSE LET processed == processResults(results, loc)
         IN  [view   |-> "cards",
              radius |-> radius,
              cards  |-> createCards(
                           IF \E i \in 1..Len(processed) :
                                 ~isNaN(processed[i].distance)
                           THEN renumber(sortCards(processed))
                           ELSE processed)]

(***************************************************************************)
(* The feedback form of a card.  Each handler is given as the card it      *)
(* leaves; c is the card before.                                           *)
(***************************************************************************)
\* the click listener of writeFeedbackBtn
writeFeedbackBtnClick(c) ==
    LET isVisible == c.formOpen
    IN  [c EXCEPT !.formOpen       = ~isVisible,
                  !.writeBtnShown  = isVisible,
                  !.selectedRating = IF ~isVisible THEN 0 ELSE @,
                  !.starsSelected  = IF ~isVisible THEN updateStars(0) ELSE @,
                  !.text           = IF ~isVisible THEN <<>> ELSE @]

\* a star listener that clears the rating when the selected star is clicked
starClickToggle(c, i) ==
    IF c.selectedRating = i
    THEN [c EXCEPT !.selectedRating = 0, !.starsSelected = updateStars(0)]
    ELSE [c EXCEPT !.selectedRating = i, !.starsSelected = updateStars(i)]

\* the click listener of star i
starClick(c, i) ==
    [c EXCEPT !.selectedRating = i, !.starsSelected = updateStars(i)]

\* the body the submit listener posts to the review webhook
requestBody(c) ==
    [serial |-> c.serial, review |-> c.selectedRating,
     feedback |-> trim(c.text)]

\* a review request in flight, with the locals of the listener; phase is
\* "posting" until axios.post resolves, then "delay" for the 500 ms wait;
\* attached tells that the elements the listener closes over (its card's
\* form and feedback display) are still in the document
ReviewRequest(card, c) ==
    [kind |-> "review", card |-> card, body |-> requestBody(c),
     feedbackText |-> trim(c.text), phase |-> "posting", attached |-> TRUE]

\* sidebarContent.innerHTML = '': the cards leave the document, and the
\* listeners with a request in flight keep the elements of the old cards
Detach(reqs) ==
    { IF r.kind = "review" THEN [r EXCEPT !.attached = FALSE] ELSE r :
        r \in reqs }

\* a continuation that looks its card up in the document by its position
reviewTargetByPosition(req) ==
    IF req.card <= Len(sidebar.cards) THEN req.card ELSE 0

\* the card of the sidebar that the continuation of a review request
\* writes to: the card whose elements it closes over, 0 when those have
\* left the document
reviewTarget(req) == IF req.attached THEN req.card ELSE 0

\* a submit listener that does not test selectedRating
submitAcceptedAlways(c) == TRUE

\* a submit listener that only refuses a negative selectedRating
submitAcceptedUnlessNegative(c) == c.selectedRating >= 0

\* a submit listener that also tests the global loading flag
submitAcceptedWhenIdle(c) == c.selectedRating # 0 /\ ~isLoading

\* the submit listener goes on to post (selectedRating is not 0)
submitAccepted(c) == c.selectedRating # 0

\* a submit listener that leaves the stars clickable
submitBtnClickStarsEnabled(c) ==
    IF ~submitAccepted(c) THEN c
    ELSE [c EXCEPT !.submitDisabled     = TRUE,
                   !.submitCaption      = "Submitting",
                   !.textareaDisabled   = TRUE]

\* the click listener of submitBtn, up to the await of axios.post
submitBtnClick(c) ==
    IF ~submitAccepted(c) THEN c
    ELSE [c EXCEPT !.submitDisabled     = TRUE,
                   !.submitCaption      = "Submitting",
                   !.textareaDisabled   = TRUE,
                   !.starsPointerEvents = "none"]

\* axios.post resolved: the success caption, then the 500 ms wait
submitResolved(c) == [c EXCEPT !.submitCaption = "Submitted"]

\* a success branch that resets the form before it writes the display
submitCompletedResetFirst(c, feedbackText) ==
    [c EXCEPT !.formOpen           = FALSE,
              !.writeBtnShown      = TRUE,
              !.ratingDisplay      = 0,
              !.feedbackDisplay    = IF feedbackText # <<>> THEN feedbackText
                                     ELSE NoFeedbackYet,
              !.selectedRating     = 0,
              !.starsSelected      = updateStars(0),
              !.text               = <<>>,
              !.submitDisabled     = FALSE,
              !.submitCaption      = "Submit",
              !.textareaDisabled   = FALSE,
              !.starsPointerEvents = "auto"]

\* after the wait: the form closes, the display shows the submitted
\* values, the form is reset and re-enabled
submitCompleted(c, feedbackText) ==
    [c EXCEPT !.formOpen           = FALSE,
              !.writeBtnShown      = TRUE,
              !.ratingDisplay      = c.selectedRating,
              !.feedbackDisplay    = IF feedbackText # <<>> THEN feedbackText
                                     ELSE NoFeedbackYet,
              !.selectedRating     = 0,
              !.starsSelected      = updateStars(0),
              !.text               = <<>>,
              !.submitDisabled     = FALSE,
              !.submitCaption      = "Submit",
              !.textareaDisabled   = FALSE,
              !.starsPointerEvents = "auto"]

\* a catch block that also resets the form
submitRejectedResetsDraft(c) ==
    [c EXCEPT !.selectedRating     = 0,
              !.starsSelected      = updateStars(0),
              !.text               = <<>>,
              !.submitDisabled     = FALSE,
              !.submitCaption      = "Submit",
              !.textareaDisabled   = FALSE,
              !.starsPointerEvents = "auto"]

\* axios.post rejected: the catch block
submitRejected(c) ==
    [c EXCEPT !.submitDisabled     = FALSE,
              !.submitCaption      = "Submit",
              !.textareaDisabled   = FALSE,
              !.starsPointerEvents = "auto"]

(***************************************************************************)
(* Requests in flight.  id is the number of the handler invocation that    *)
(* issued the request; address, radius and geo are handleSearch's locals.  *)
(***************************************************************************)
\* a handleSearch that sends the radius as entered, in miles
GeocodeRequestMiles(id, address, radius) ==
    [id |-> id, kind |-> "geocode", address |-> address, radius |-> radius,
     radiusKm |-> radius.v * 100000, geo |-> Null]
GeocodeRequest(id, address, radius) ==
    [id |-> id, kind |-> "geocode", address |-> address, radius |-> radius,
     radiusKm |-> radius.v * 160934, geo |-> Null]
\* radiusKm = radius * 1.60934, here in millionths of a kilometre
QueryRequest(g, geocodeResult) ==
    [id |-> g.id, kind |-> "query", address |-> g.address,
     radius |-> g.radius, radiusKm |-> g.radiusKm, geo |-> geocodeResult]
\* the body of POST /query; radius is in millionths of a kilometre
queryBody(q) ==
    [latitude |-> q.geo.lat, longitude |-> q.geo.lon, radius |-> q.radiusKm]
DataRequest(id) ==
    [id |-> id, kind |-> "data", address |-> <<>>, radius |-> NaN,
     radiusKm |-> 0, geo |-> Null]
UpdateRequest(id) ==
    [id |-> id, kind |-> "update", address |-> <<>>, radius |-> NaN,
     radiusKm |-> 0, geo |-> Null]

Pending(kind) == { r \in requests : r.kind = kind }

(***************************************************************************)
(* Initial state: the module-level declarations of main.js, before the     *)
(* DOMContentLoaded listener has run.                                      *)
(***************************************************************************)
Init ==
    /\ domLoaded = FALSE
    /\ isLoading = FALSE
    /\ loadingIndicatorHidden = TRUE
    /\ searchBtnDisabled = FALSE
    /\ updateMapBtnDisabled = FALSE
    /\ markers = <<>>
    /\ searchCircle = Null
    /\ searchLocationMarker = Null
    /\ overlayLayers = <<>>
    /\ lastSearchLocation = Null
    /\ notice = NoNotice
    /\ sidebar = SidebarInitial
    /\ requests = {}
    /\ timers = 0
    /\ nextId = 1
    /\ lastEvent = [op |-> "script"]

\* showLoading(show)
showLoading(show) ==
    /\ loadingIndicatorHidden' = ~show
    /\ searchBtnDisabled' = show
    /\ updateMapBtnDisabled' = show
    /\ isLoading' = show

(***************************************************************************)
(* loadAllPins                                                             *)
(***************************************************************************)
\* a loadAllPins that forgets the search location
loadAllPinsResetsSearch ==
    /\ showLoading(TRUE)
    /\ requests' = requests \cup { DataRequest(nextId) }
    /\ nextId' = nextId + 1
    /\ lastSearchLocation' = Null
    /\ UNCHANGED <<mapVars, notice, sidebar>>

\* up to the await of axios.get
loadAllPins ==
    /\ showLoading(TRUE)
    /\ requests' = requests \cup { DataRequest(nextId) }
    /\ nextId' = nextId + 1
    /\ UNCHANGED <<mapVars, lastSearchLocation, notice, sidebar>>

\* the response arrived: plotMarkers(data), then the finally block
loadAllPinsResolved(req, data) ==
    /\ markers' = plotMarkers(markers, data)
    /\ showLoading(FALSE)
    /\ requests' = requests \ {req}
    /\ UNCHANGED <<searchCircle, searchLocationMarker, overlayLayers,
                   lastSearchLocation, notice, sidebar, nextId>>

\* the request failed: the catch block, then the finally block
loadAllPinsRejected(req) ==
    /\ notice' = showError(MsgLoadFailed)
    /\ showLoading(FALSE)
    /\ requests' = requests \ {req}
    /\ UNCHANGED <<mapVars, lastSearchLocation, sidebar, nextId>>

(***************************************************************************)
(* handleSearch                                                            *)
(***************************************************************************)
\* the check without its !radius half
radiusRejectedNonPositiveOnly(radius) == ~isNaN(radius) /\ radius.v <= 0

\* !radius || radius <= 0
\* (NaN and 0 are falsy; NaN <= 0 is false)
radiusRejected(radius) ==
    \/ isNaN(radius) \/ radius.v = 0
    \/ ~isNaN(radius) /\ radius.v <= 0

\* the returns without the isLoading guard
searchOutcomeUnguarded(addressValue, radiusValue) ==
    IF trim(addressValue) = <<>> THEN "noAddress"
    ELSE IF radiusRejected(parseFloat(radiusValue)) THEN "badRadius"
    ELSE "started"

\* which return of the synchronous part is taken
searchOutcome(addressValue, radiusValue) ==
    IF trim(addressValue) = <<>> THEN "noAddress"
    ELSE IF radiusRejected(parseFloat(radiusValue)) THEN "badRadius"
    ELSE IF isLoading THEN "ignored"
    ELSE "started"

\* handleSearch issuing the query together with the geocode request
handleSearchSpeculative(addressValue, radiusValue) ==
    LET address == trim(addressValue)
        radius  == parseFloat(radiusValue)
        outcome == searchOutcome(addressValue, radiusValue)
        g       == GeocodeRequest(nextId, address, radius)
    IN  CASE outcome = "noAddress" ->
               /\ notice' = showError(MsgEnterAddress)
               /\ UNCHANGED <<loadingVars, requests, nextId>>
          [] outcome = "badRadius" ->
               /\ notice' = showError(MsgValidRadius)
               /\ UNCHANGED <<loadingVars, requests, nextId>>
          [] outcome = "ignored" ->
               UNCHANGED <<loadingVars, requests, nextId, notice>>
          [] outcome = "started" ->
               /\ showLoading(TRUE)
               /\ requests' = requests \cup
                     { g, QueryRequest(g, [lat |-> NaN, lon |-> NaN,
                                           display_name |-> <<>>]) }
               /\ nextId' = nextId + 1
               /\ UNCHANGED notice

\* up to the await of geocodeAddress, which has issued axios.get by then
handleSearch(addressValue, radiusValue) ==
    LET address == trim(addressValue)
        radius  == parseFloat(radiusValue)
        outcome == searchOutcome(addressValue, radiusValue)
    IN  CASE outcome = "noAddress" ->
               /\ notice' = showError(MsgEnterAddress)
               /\ UNCHANGED <<loadingVars, requests, nextId>>
          [] outcome = "badRadius" ->
               /\ notice' = showError(MsgValidRadius)
               /\ UNCHANGED <<loadingVars, requests, nextId>>
          [] outcome = "ignored" ->
               UNCHANGED <<loadingVars, requests, nextId, notice>>
          [] outcome = "started" ->
               /\ showLoading(TRUE)
               /\ requests' = requests
                     \cup { GeocodeRequest(nextId, address, radius) }
               /\ nextId' = nextId + 1
               /\ UNCHANGED notice

\* geocodeAddress's return value: resp is the response of axios.get, or a
\* rejection, which geocodeAddress catches
geocodeAddress(resp) ==
    IF resp.ok /\ resp.data # <<>>
    THEN LET result == resp.data[1]
         IN  [lat |-> parseFloat(result.lat),
              lon |-> parseFloat(result.lon),
              display_name |-> IF "display_name" \in DOMAIN result
                               THEN result.display_name ELSE <<>>]
    ELSE Null

\* without the null check the miss ends in the catch block
handleSearchGeocodedUnchecked(req, geocodeResult) ==
    IF geocodeResult = Null
    THEN /\ notice' = showError(MsgSearchFailed)
         /\ showLoading(FALSE)
         /\ requests' = requests \ {req}
         /\ UNCHANGED lastSearchLocation
    ELSE /\ lastSearchLocation' =
                [lat |-> geocodeResult.lat, lon |-> geocodeResult.lon]
         /\ requests' = (requests \ {req})
                            \cup { QueryRequest(req, geocodeResult) }
         /\ UNCHANGED <<loadingVars, notice>>

\* the not-found return outside the try, so that no finally block runs
handleSearchGeocodedNoFinally(req, geocodeResult) ==
    IF geocodeResult = Null
    THEN /\ notice' = showError(MsgAddressNotFound)
         /\ requests' = requests \ {req}
         /\ UNCHANGED <<loadingVars, lastSearchLocation>>
    ELSE /\ lastSearchLocation' =
                [lat |-> geocodeResult.lat, lon |-> geocodeResult.lon]
         /\ requests' = (requests \ {req})
                            \cup { QueryRequest(req, geocodeResult) }
         /\ UNCHANGED <<loadingVars, notice>>

\* geocodeAddress returned: the not-found return with its finally block, or
\* on to the await of axios.post
handleSearchGeocoded(req, geocodeResult) ==
    IF geocodeResult = Null
    THEN /\ notice' = showError(MsgAddressNotFound)
         /\ showLoading(FALSE)
         /\ requests' = requests \ {req}
         /\ UNCHANGED lastSearchLocation
    ELSE /\ lastSearchLocation' =
                [lat |-> geocodeResult.lat, lon |-> geocodeResult.lon]
         /\ requests' = (requests \ {req})
                            \cup { QueryRequest(req, geocodeResult) }
         /\ UNCHANGED <<loadingVars, notice>>

\* an empty result reported with the message of the catch block
handleSearchResolvedEmptyAsFailure(req, data) ==
    /\ markers' = plotMarkers(clearMarkers, data)
    /\ sidebar' = updateSidebar(data, req.radius, lastSearchLocation)
    /\ searchCircle' = drawSearchCircle(req.geo.lat, req.geo.lon, req.radius)
    /\ searchLocationMarker' =
          highlightSearchLocation(req.geo.lat, req.geo.lon,
              IF req.geo.display_name # <<>> THEN req.geo.display_name
              ELSE req.address)
    /\ overlayLayers' =
          highlightSearchLocationLayers(
              drawSearchCircleLayers(overlayLayers, req.geo.lat, req.geo.lon,
                                     req.radius),
              req.geo.lat, req.geo.lon,
              IF req.geo.display_name # <<>> THEN req.geo.display_name
              ELSE req.address)
    /\ notice' = IF Len(data) = 0 THEN showError(MsgSearchFailed) ELSE notice
    /\ showLoading(FALSE)
    /\ requests' = requests \ {req}
    /\ UNCHANGED <<lastSearchLocation, nextId>>

\* the query's response arrived: steps 3 to 6, then the finally block
handleSearchResolved(req, data) ==
    /\ markers' = plotMarkers(clearMarkers, data)
    /\ sidebar' = updateSidebar(data, req.radius, lastSearchLocation)
    /\ searchCircle' = drawSearchCircle(req.geo.lat, req.geo.lon, req.radius)
    /\ searchLocationMarker' =
          highlightSearchLocation(req.geo.lat, req.geo.lon,
              IF req.geo.display_name # <<>> THEN req.geo.display_name
              ELSE req.address)
    /\ overlayLayers' =
          highlightSearchLocationLayers(
              drawSearchCircleLayers(overlayLayers, req.geo.lat, req.geo.lon,
                                     req.radius),
              req.geo.lat, req.geo.lon,
              IF req.geo.display_name # <<>> THEN req.geo.display_name
              ELSE req.address)
    /\ notice' = IF Len(data) = 0 THEN showError(MsgNoLocations) ELSE notice
    /\ showLoading(FALSE)
    /\ requests' = Detach(requests \ {req})
    /\ UNCHANGED <<lastSearchLocation, nextId>>

\* a catch block that also empties the map and the sidebar
handleSearchRejectedClearsResults(req) ==
    /\ notice' = showError(MsgSearchFailed)
    /\ showLoading(FALSE)
    /\ requests' = requests \ {req}
    /\ markers' = clearMarkers
    /\ sidebar' = updateSidebar(<<>>, req.radius, lastSearchLocation)
    /\ UNCHANGED <<searchCircle, searchLocationMarker, overlayLayers,
                   lastSearchLocation, nextId>>

\* the query failed: the catch block, then the finally block
handleSearchRejected(req) ==
    /\ notice' = showError(MsgSearchFailed)
    /\ showLoading(FALSE)
    /\ requests' = requests \ {req}
    /\ UNCHANGED <<mapVars, sidebar, lastSearchLocation, nextId>>

(***************************************************************************)
(* handleUpdateMap                                                         *)
(***************************************************************************)
\* up to the await of axios.post
handleUpdateMap ==
    IF isLoading
    THEN UNCHANGED <<loadingVars, requests, nextId>>
    ELSE /\ showLoading(TRUE)
         /\ requests' = requests \cup { UpdateRequest(nextId) }
         /\ nextId' = nextId + 1

\* a success branch that schedules no reload
handleUpdateMapResolvedNoReload(req) ==
    /\ notice' = showSuccess(MsgUpdateTriggered)
    /\ timers' = timers
    /\ showLoading(FALSE)
    /\ requests' = requests \ {req}

\* the update succeeded: the notice, the reload timer, the finally block
handleUpdateMapResolved(req) ==
    /\ notice' = showSuccess(MsgUpdateTriggered)
    /\ timers' = timers + 1
    /\ showLoading(FALSE)
    /\ requests' = requests \ {req}

\* the update failed: the catch block, then the finally block
handleUpdateMapRejected(req) ==
    /\ notice' = showError(MsgUpdateFailed)
    /\ timers' = timers
    /\ showLoading(FALSE)
    /\ requests' = requests \ {req}

(***************************************************************************)
(* The steps: event listeners, exported entry points, responses, timers.   *)
(***************************************************************************)
\* the DOMContentLoaded listener: initializeMap, setupEventListeners and
\* the first loadAllPins
DOMContentLoaded ==
    /\ ~domLoaded
    /\ domLoaded' = TRUE
    /\ loadAllPins
    /\ UNCHANGED timers
    /\ lastEvent' = [op |-> "DOMContentLoaded", id |-> nextId]

\* one call of handleSearch with the inputs holding the two values
SearchInvoked(addressValue, radiusValue) ==
    /\ domLoaded
    /\ nextId <= MaxOps
    /\ handleSearch(addressValue, radiusValue)
    /\ UNCHANGED <<domLoaded, mapVars, sidebar, lastSearchLocation, timers>>
    /\ lastEvent' = [op |-> "handleSearch", id |-> nextId,
                     address |-> addressValue, radius |-> radiusValue,
                     outcome |-> searchOutcome(addressValue, radiusValue)]

\* a click on #searchBtn; a disabled button dispatches no click
SearchClick ==
    /\ ~searchBtnDisabled
    /\ \E a \in AddressInputs, r \in RadiusInputs : SearchInvoked(a, r)

\* Enter in #addressInput or #radiusInput
SearchEnter ==
    /\ ~isLoading
    /\ \E a \in AddressInputs, r \in RadiusInputs : SearchInvoked(a, r)

\* window.MapRAG.handleSearch(), the exported entry point
SearchCall ==
    \E a \in AddressInputs, r \in RadiusInputs : SearchInvoked(a, r)

\* a click on #updateMapBtn
UpdateClick ==
    /\ domLoaded
    /\ ~updateMapBtnDisabled
    /\ nextId <= MaxOps
    /\ handleUpdateMap
    /\ UNCHANGED <<domLoaded, mapVars, sidebar, lastSearchLocation, timers,
                   notice>>
    /\ lastEvent' = [op |-> "handleUpdateMap", id |-> nextId,
                     outcome |-> IF isLoading THEN "ignored" ELSE "started"]

GeocodeAnswers ==
    { [ok |-> FALSE, data |-> <<>>] }
        \cup { [ok |-> TRUE, data |-> d] : d \in GeocodeResponses }

\* the geocoding request settles
GeocodeSettled ==
    \E req \in Pending("geocode"), resp \in GeocodeAnswers :
        /\ handleSearchGeocoded(req, geocodeAddress(resp))
        /\ UNCHANGED <<domLoaded, mapVars, sidebar, timers, nextId>>
        /\ lastEvent' = [op |-> "geocoded", id |-> req.id, resp |-> resp]

\* POST /query resolves
QueryResolved ==
    \E req \in Pending("query"), data \in DataResponses :
        /\ handleSearchResolved(req, data)
        /\ UNCHANGED <<domLoaded, timers>>
        /\ lastEvent' = [op |-> "searchResolved", id |-> req.id, data |-> data,
                         req |-> req]

\* POST /query rejects
QueryRejected ==
    \E req \in Pending("query") :
        /\ handleSearchRejected(req)
        /\ UNCHANGED <<domLoaded, timers>>
        /\ lastEvent' = [op |-> "searchRejected", id |-> req.id]

\* GET /data resolves
DataResolved ==
    \E req \in Pending("data"), data \in DataResponses :
        /\ loadAllPinsResolved(req, data)
        /\ UNCHANGED <<domLoaded, timers>>
        /\ lastEvent' = [op |-> "loadResolved", id |-> req.id, data |-> data]

\* GET /data rejects
DataRejected ==
    \E req \in Pending("data") :
        /\ loadAllPinsRejected(req)
        /\ UNCHANGED <<domLoaded, timers>>
        /\ lastEvent' = [op |-> "loadRejected", id |-> req.id]

\* POST /update resolves
UpdateResolved ==
    \E req \in Pending("update") :
        /\ handleUpdateMapResolved(req)
        /\ UNCHANGED <<domLoaded, mapVars, sidebar, lastSearchLocation, nextId>>
        /\ lastEvent' = [op |-> "updateResolved", id |-> req.id]

\* POST /update rejects
UpdateRejected ==
    \E req \in Pending("update") :
        /\ handleUpdateMapRejected(req)
        /\ UNCHANGED <<domLoaded, mapVars, sidebar, lastSearchLocation, nextId>>
        /\ lastEvent' = [op |-> "updateRejected", id |-> req.id]

\* the callback of setTimeout(() => loadAllPins(), 1000)
ReloadTimer ==
    /\ timers > 0
    /\ nextId <= MaxOps
    /\ timers' = timers - 1
    /\ loadAllPins
    /\ UNCHANGED domLoaded
    /\ lastEvent' = [op |-> "reloadTimer", id |-> nextId,
                     wasLoading |-> isLoading]

\* the callback that removes the notice 5 s (3 s) after it was shown
NoticeExpired ==
    /\ notice # NoNotice
    /\ notice' = NoNotice
    /\ UNCHANGED <<domLoaded, loadingVars, mapVars, lastSearchLocation,
                   sidebar, requests, timers, nextId>>
    /\ lastEvent' = [op |-> "noticeExpired"]

Next ==
    \/ DOMContentLoaded
    \/ SearchClick
    \/ SearchEnter
    \/ SearchCall
    \/ UpdateClick
    \/ GeocodeSettled
    \/ QueryResolved
    \/ QueryRejected
    \/ DataResolved
    \/ DataRejected
    \/ UpdateResolved
    \/ UpdateRejected
    \/ ReloadTimer
    \/ NoticeExpired

Spec == Init /\ [][Next]_vars

\* every request in flight is settled in the end: axios resolves or rejects
\* each call
FairSpec ==
    /\ Spec
    /\ WF_vars(GeocodeSettled)
    /\ WF_vars(QueryResolved \/ QueryRejected)
    /\ WF_vars(DataResolved \/ DataRejected)
    /\ WF_vars(UpdateResolved \/ UpdateRejected)

(***************************************************************************)
(* plotMarkers and updateSidebar called with one batch, as the exported    *)
(* window.MapRAG.plotMarkers and window.MapRAG.updateSidebar allow, on a   *)
(* page that is idle.  The page has completed its first load (with no      *)
(* record or with RecA); it has no search location yet, or the one left by *)
(* a search whose query failed; its last notice has expired.               *)
(***************************************************************************)
SearchLocations ==
    { [lat |-> geocodeAddress([ok |-> TRUE, data |-> d]).lat,
       lon |-> geocodeAddress([ok |-> TRUE, data |-> d]).lon] :
          d \in GeocodeResponses \ { <<>> } }

BatchInit ==
    /\ domLoaded = TRUE
    /\ isLoading = FALSE
    /\ loadingIndicatorHidden = TRUE
    /\ searchBtnDisabled = FALSE
    /\ updateMapBtnDisabled = FALSE
    /\ markers \in { <<>>, plotMarkers(<<>>, <<RecA>>) }
    /\ searchCircle = Null
    /\ searchLocationMarker = Null
    /\ overlayLayers = <<>>
    /\ lastSearchLocation \in { Null } \cup SearchLocations
    /\ notice = NoNotice
    /\ sidebar = SidebarInitial
    /\ requests = {}
    /\ timers = 0
    /\ nextId = IF lastSearchLocation = Null THEN 2 ELSE 3
    /\ lastEvent = [op |-> "noticeExpired"]

\* window.MapRAG.plotMarkers(data)
PlotMarkersCall ==
    /\ lastEvent.op = "noticeExpired"
    /\ \E data \in Batches :
          /\ markers' = plotMarkers(markers, data)
          /\ lastEvent' = [op |-> "plotMarkers", data |-> data,
                           before |-> markers]
    /\ UNCHANGED <<domLoaded, loadingVars, searchCircle, searchLocationMarker,
                   overlayLayers, lastSearchLocation, notice, sidebar,
                   requests, timers, nextId>>

\* window.MapRAG.updateSidebar(results, radius), with a radius of 10 miles
UpdateSidebarCall ==
    /\ lastEvent.op = "noticeExpired"
    /\ \E results \in Batches :
          /\ sidebar' = updateSidebar(results, Num(100), lastSearchLocation)
          /\ lastEvent' = [op |-> "updateSidebar", results |-> results]
    /\ UNCHANGED <<domLoaded, loadingVars, mapVars, lastSearchLocation,
                   notice, requests, timers, nextId>>

BatchNext ==
    \/ PlotMarkersCall
    \/ UpdateSidebarCall

BatchSpec == BatchInit /\ [][BatchNext]_vars

(***************************************************************************)
(* The feedback forms of a rendered result list: the sidebar as a search   *)
(* from Birmingham with a radius of 10 miles leaves it when its query      *)
(* returned RecA and RecAlias.  The steps are the clicks and the typing    *)
(* the page dispatches (a hidden or disabled element dispatches none) and  *)
(* the settling of the review requests.                                    *)
(***************************************************************************)
FeedbackResults == <<RecA, RecAlias>>
\* the stars clicked and the texts typed in the model
StarChoices == { 2, 5 }
TextInputs == { <<>>, <<" ", "o", "k", " ">> }

FeedbackInit ==
    LET geo   == geocodeAddress([ok |-> TRUE, data |-> <<GeoBham>>])
        query == QueryRequest(GeocodeRequest(2, <<"B", "h", "m">>, Num(100)),
                              geo)
    IN  /\ domLoaded = TRUE
        /\ isLoading = FALSE
        /\ loadingIndicatorHidden = TRUE
        /\ searchBtnDisabled = FALSE
        /\ updateMapBtnDisabled = FALSE
        /\ markers = plotMarkers(clearMarkers, FeedbackResults)
        /\ searchCircle = drawSearchCircle(geo.lat, geo.lon, Num(100))
        /\ searchLocationMarker =
              highlightSearchLocation(geo.lat, geo.lon, geo.display_name)
        /\ overlayLayers = <<searchCircle, searchLocationMarker>>
        /\ lastSearchLocation = [lat |-> geo.lat, lon |-> geo.lon]
        /\ notice = NoNotice
        /\ sidebar = updateSidebar(FeedbackResults, Num(100),
                                   lastSearchLocation)
        /\ requests = {}
        /\ timers = 0
        /\ nextId = 3
        /\ lastEvent = [op |-> "searchResolved", id |-> 2,
                        data |-> FeedbackResults, req |-> query]

Cards == 1..Len(sidebar.cards)
feedbackFrame ==
    UNCHANGED <<domLoaded, loadingVars, mapVars, lastSearchLocation, notice,
                timers, nextId>>

\* a click on a card's Write Feedback button
WriteFeedbackClick ==
    \E card \in Cards :
        /\ sidebar.cards[card].writeBtnShown
        /\ sidebar' = [sidebar EXCEPT
                          !.cards[card] = writeFeedbackBtnClick(@)]
        /\ lastEvent' = [op |-> "writeFeedbackClick", card |-> card]
        /\ UNCHANGED requests
        /\ feedbackFrame

\* a click on one of a card's stars
StarClick ==
    \E card \in Cards, i \in StarChoices :
        /\ sidebar.cards[card].formOpen
        /\ sidebar.cards[card].starsPointerEvents = "auto"
        /\ sidebar' = [sidebar EXCEPT !.cards[card] = starClick(@, i)]
        /\ lastEvent' = [op |-> "starClick", card |-> card, star |-> i]
        /\ UNCHANGED requests
        /\ feedbackFrame

\* typing into a card's textarea
TextInput ==
    \E card \in Cards, value \in TextInputs :
        /\ sidebar.cards[card].formOpen
        /\ ~sidebar.cards[card].textareaDisabled
        /\ sidebar' = [sidebar EXCEPT !.cards[card].text = value]
        /\ lastEvent' = [op |-> "textInput", card |-> card, value |-> value]
        /\ UNCHANGED requests
        /\ feedbackFrame

\* a click on a card's submit button
SubmitClick ==
    \E card \in Cards :
        LET c == sidebar.cards[card]
        IN  /\ c.formOpen
            /\ ~c.submitDisabled
            /\ sidebar' = [sidebar EXCEPT !.cards[card] = submitBtnClick(c)]
            /\ requests' = IF submitAccepted(c)
                           THEN requests \cup { ReviewRequest(card, c) }
                           ELSE requests
            /\ lastEvent' = [op |-> "submitClick", card |-> card,
                             outcome |-> IF submitAccepted(c) THEN "posted"
                                         ELSE "alert"]
            /\ feedbackFrame

\* the POST to the review webhook resolves
ReviewResolved ==
    \E req \in Pending("review") :
        /\ req.phase = "posting"
        /\ sidebar' = IF reviewTarget(req) = 0 THEN sidebar
                       ELSE [sidebar EXCEPT
                                !.cards[reviewTarget(req)] = submitResolved(@)]
        /\ requests' = (requests \ {req})
                           \cup { [req EXCEPT !.phase = "delay"] }
        /\ lastEvent' = [op |-> "reviewResolved", card |-> req.card]
        /\ feedbackFrame

\* the 500 ms wait after the success is over
ReviewDelayElapsed ==
    \E req \in Pending("review") :
        /\ req.phase = "delay"
        /\ sidebar' = IF reviewTarget(req) = 0 THEN sidebar
                       ELSE [sidebar EXCEPT
                                !.cards[reviewTarget(req)] =
                                    submitCompleted(@, req.feedbackText)]
        /\ requests' = requests \ {req}
        /\ lastEvent' = [op |-> "reviewCompleted", card |-> req.card,
                         req |-> req]
        /\ feedbackFrame

\* the POST to the review webhook rejects
ReviewRejected ==
    \E req \in Pending("review") :
        /\ req.phase = "posting"
        /\ sidebar' = IF reviewTarget(req) = 0 THEN sidebar
                       ELSE [sidebar EXCEPT
                                !.cards[reviewTarget(req)] = submitRejected(@)]
        /\ requests' = requests \ {req}
        /\ lastEvent' = [op |-> "reviewRejected", card |-> req.card,
                         req |-> req]
        /\ feedbackFrame

FeedbackNext ==
    \/ WriteFeedbackClick
    \/ StarClick
    \/ TextInput
    \/ SubmitClick
    \/ ReviewResolved
    \/ ReviewDelayElapsed
    \/ ReviewRejected

FeedbackSpec == FeedbackInit /\ [][FeedbackNext]_vars

\* Spec with the timer callbacks of setTimeout running when they are due
TimerFairSpec == Spec /\ WF_vars(ReloadTimer)

(***************************************************************************)
(* The feedback forms of a list that the sort reordered: the same search   *)
(* when its query returned RecAlias before RecA.  RecAlias, 81.3 miles     *)
(* away and without a serial of its own, is the first record of the batch  *)
(* and the second card; RecA, 6.9 miles away, is the first card.           *)
(***************************************************************************)
ReorderedResults == <<RecAlias, RecA>>

\* the page as the search with the given id leaves it when it was made
\* from Birmingham with a radius of 10 miles and its query returned results
RenderedPage(results, id) ==
    LET geo   == geocodeAddress([ok |-> TRUE, data |-> <<GeoBham>>])
        query == QueryRequest(GeocodeRequest(id, <<"B", "h", "m">>, Num(100)),
                              geo)
    IN  /\ domLoaded = TRUE
        /\ isLoading = FALSE
        /\ loadingIndicatorHidden = TRUE
        /\ searchBtnDisabled = FALSE
        /\ updateMapBtnDisabled = FALSE
        /\ markers = plotMarkers(clearMarkers, results)
        /\ searchCircle = drawSearchCircle(geo.lat, geo.lon, Num(100))
        /\ searchLocationMarker =
              highlightSearchLocation(geo.lat, geo.lon, geo.display_name)
        /\ overlayLayers = <<searchCircle, searchLocationMarker>>
        /\ lastSearchLocation = [lat |-> geo.lat, lon |-> geo.lon]
        /\ notice = NoNotice
        /\ sidebar = updateSidebar(results, Num(100), lastSearchLocation)
        /\ requests = {}
        /\ timers = 0
        /\ nextId = id + 1
        /\ lastEvent = [op |-> "searchResolved", id |-> id,
                        data |-> results, req |-> query]

ReorderedInit == RenderedPage(ReorderedResults, 2)

ReorderedFeedbackSpec == ReorderedInit /\ [][FeedbackNext]_vars

(***************************************************************************)
(* The feedback forms while the search is run again: the steps of          *)
(* FeedbackSpec together with a click on the search button, the inputs     *)
(* holding an address and a radius of 10 miles, and the settling of that   *)
(* search's requests.  A query that resolves renders the sidebar anew.     *)
(* The page is the one of FeedbackSpec, one search later.                  *)
(***************************************************************************)
SearchAgainClick ==
    /\ ~searchBtnDisabled
    /\ SearchInvoked(<<" ", "B", "h", "m", " ">>, <<"1", "0">>)

RerenderNext ==
    \/ FeedbackNext
    \/ SearchAgainClick
    \/ GeocodeSettled
    \/ QueryResolved
    \/ QueryRejected

\* the search that rendered the list was the last but one that the bound
\* on invocations allows
RerenderInit == RenderedPage(FeedbackResults, MaxOps - 1)

RerenderSpec == RerenderInit /\ [][RerenderNext]_vars

(***************************************************************************)
(* Properties.                                                             *)
(***************************************************************************)
Idle ==
    /\ ~isLoading
    /\ loadingIndicatorHidden
    /\ ~searchBtnDisabled
    /\ ~updateMapBtnDisabled

SearchRequests == Pending("geocode") \cup Pending("query")

\* C1: loadAllPins invoked while isLoading is TRUE (the reload that
\* handleUpdateMap schedules is the invocation that can meet this) issues no
\* GET /data and leaves isLoading, the controls and the markers as they were.
C1_LoadWhileLoadingIsNoOp ==
    [][(lastEvent'.op = "reloadTimer" /\ isLoading)
          => /\ Pending("data")' = Pending("data")
             /\ UNCHANGED <<loadingVars, markers>>]_vars

\* C2: at most one handleSearch invocation is between its showLoading(true)
\* and its finally block, that is, awaits its geocode or its query request.
C2_OneSearchInFlight ==
    Cardinality({ r.id : r \in SearchRequests }) <= 1

\* C3: while any request of handleSearch, loadAllPins or handleUpdateMap is
\* unresolved, isLoading is TRUE and the search and update controls are
\* disabled.
C3_LoadingWhileRequestPending ==
    requests # {} => isLoading /\ searchBtnDisabled /\ updateMapBtnDisabled

\* the inputs handleSearch has to reject: an address that is empty once
\* trimmed, a radius that is not a number, zero or negative
AddressMissing(addressValue) ==
    \A i \in 1..Len(addressValue) : addressValue[i] = " "
RadiusNotPositive(radiusValue) ==
    LET radius == parseFloat(radiusValue)
    IN  isNaN(radius) \/ radius.v < 1
ValidationNotices == { showError(MsgEnterAddress), showError(MsgValidRadius) }

\* C4 as stated: a handleSearch call made while isLoading is TRUE changes
\* nothing, whatever the address and radius inputs hold.
C4_SearchWhileLoadingNoEffect ==
    [][(lastEvent'.op = "handleSearch" /\ isLoading)
          => UNCHANGED <<requests, notice, mapVars, sidebar,
                         lastSearchLocation, loadingVars>>]_vars

\* C4 amended: a handleSearch call made while isLoading is TRUE with inputs
\* that pass validation changes nothing: no request, no notice, the same
\* markers, overlays, sidebar and lastSearchLocation.
C4_ValidSearchWhileLoadingNoEffect ==
    [][(/\ lastEvent'.op = "handleSearch"
        /\ isLoading
        /\ ~AddressMissing(lastEvent'.address)
        /\ ~RadiusNotPositive(lastEvent'.radius))
          => UNCHANGED <<requests, notice, mapVars, sidebar,
                         lastSearchLocation, loadingVars>>]_vars

C4_Witness ==
    /\ lastEvent.op = "handleSearch"
    /\ lastEvent.outcome = "ignored"
    /\ isLoading

\* the steps that end an invocation
FinalOps == { "geocoded", "searchResolved", "searchRejected", "loadResolved",
              "loadRejected", "updateResolved", "updateRejected" }
InFlight(id) == \E r \in requests : r.id = id
Finished(id) ==
    /\ lastEvent.op \in FinalOps
    /\ lastEvent.id = id
    /\ ~InFlight(id)

\* C5: every invocation that entered Loading ends, and the step that ends it
\* leaves the orchestrator Idle with the controls enabled; with no request
\* left the orchestrator is Idle.
C5_ReturnsToIdle ==
    /\ [](requests = {} => Idle)
    /\ \A id \in 1..MaxOps : InFlight(id) ~> (Finished(id) /\ Idle)

C5_Witness ==
    /\ lastEvent.op = "searchRejected"
    /\ Finished(lastEvent.id)
    /\ Idle

\* C6: POST /query is issued only by the step in which the same search's
\* geocode request settled with a match, and a search never has its geocode
\* and its query request in flight together.
C6_GeocodeBeforeQuery ==
    [][\A q \in Pending("query")' :
          /\ \A g \in Pending("geocode")' : g.id # q.id
          /\ q \notin requests =>
                /\ lastEvent'.op = "geocoded"
                /\ lastEvent'.id = q.id
                /\ lastEvent'.resp.ok /\ lastEvent'.resp.data # <<>>
                /\ \E g \in Pending("geocode") : g.id = q.id]_vars

C6_Witness == Pending("query") # {}

\* C7: when geocoding yields no match (an empty array, or a failed lookup,
\* which geocodeAddress turns into null), the address-not-found notice is
\* shown, the search has no POST /query and the orchestrator is Idle.
C7_GeocodeMiss ==
    (lastEvent.op = "geocoded"
        /\ (~lastEvent.resp.ok \/ lastEvent.resp.data = <<>>))
      => /\ notice = showError(MsgAddressNotFound)
         /\ ~InFlight(lastEvent.id)
         /\ ~isLoading /\ ~searchBtnDisabled

C7_Witness ==
    /\ lastEvent.op = "geocoded"
    /\ lastEvent.resp.ok
    /\ lastEvent.resp.data = <<>>

\* C8: a handleSearch call whose address is missing or whose radius is not a
\* number, zero or negative shows a validation notice, issues no request and
\* does not enter Loading.
C8_ValidationBeforeNetwork ==
    [][(/\ lastEvent'.op = "handleSearch"
        /\ \/ AddressMissing(lastEvent'.address)
           \/ RadiusNotPositive(lastEvent'.radius))
          => /\ notice' \in ValidationNotices
             /\ UNCHANGED <<requests, loadingVars, nextId>>]_vars

C8_Witness ==
    /\ lastEvent.op = "handleSearch"
    /\ ~AddressMissing(lastEvent.address)
    /\ lastEvent.radius = <<"a", "b", "c">>
    /\ notice = showError(MsgValidRadius)

Plottable(raw) ==
    /\ ~isNaN(parseFloatOf(unwrap(raw), "latitude"))
    /\ ~isNaN(parseFloatOf(unwrap(raw), "longitude"))
PlottableOf(data) == SelectSeq(data, Plottable)

\* C10: after a search or a full-data load completes, markers holds exactly
\* one marker for each plottable record of that result set, in order, and
\* nothing else.
C10_NoStaleMarkers ==
    lastEvent.op \in {"searchResolved", "loadResolved"}
      => LET want == PlottableOf(lastEvent.data)
         IN  /\ Len(markers) = Len(want)
             /\ \A i \in 1..Len(want) :
                   /\ markers[i].lat = parseFloatOf(unwrap(want[i]), "latitude")
                   /\ markers[i].lon = parseFloatOf(unwrap(want[i]), "longitude")

\* C11: reconciling a second time with the same results and overlay leaves
\* the markers, the circle and the highlight as the first time left them:
\* plotMarkers(data) after a load, and clearMarkers, plotMarkers,
\* drawSearchCircle and highlightSearchLocation after a search.
C11_ReconcileIdempotent ==
    /\ lastEvent.op = "loadResolved"
          => plotMarkers(markers, lastEvent.data) = markers
    /\ lastEvent.op = "searchResolved"
          => LET req   == lastEvent.req
                 label == IF req.geo.display_name # <<>>
                          THEN req.geo.display_name ELSE req.address
             IN  /\ plotMarkers(clearMarkers, lastEvent.data) = markers
                 /\ drawSearchCircle(req.geo.lat, req.geo.lon, req.radius)
                       = searchCircle
                 /\ highlightSearchLocation(req.geo.lat, req.geo.lon, label)
                       = searchLocationMarker
                 /\ highlightSearchLocationLayers(
                        drawSearchCircleLayers(overlayLayers, req.geo.lat,
                                               req.geo.lon, req.radius),
                        req.geo.lat, req.geo.lon, label) = overlayLayers

IsCircle(layer) == "radius" \in DOMAIN layer
IsHighlight(layer) == "label" \in DOMAIN layer

C13_MapAndSidebarAgree ==
    lastEvent.op \in {"searchResolved", "loadResolved"}
      => { markers[i].popupName : i \in 1..Len(markers) }
            = { sidebar.cards[i].name : i \in 1..Len(sidebar.cards) }

\* coordinates a displayed location may have, in tenths of a degree
InRange(lat, lon) ==
    /\ ~isNaN(lat) /\ ~isNaN(lon)
    /\ lat.v >= -900 /\ lat.v <= 900
    /\ lon.v >= -1800 /\ lon.v <= 1800
\* the record's coordinates, read through the aliases updateSidebar reads,
\* are in range
ValidCoordinates(raw) ==
    InRange(parseFloatOfFirst(unwrap(raw),
                              <<"latitude", "lat", "Latitude", "Lat">>),
            parseFloatOfFirst(unwrap(raw),
                              <<"longitude", "lon", "Longitude", "Lon">>))
NameOf(raw) == firstTruthy(unwrap(raw), <<"name", "Name">>, "Unnamed")
\* the markers the last plotMarkers call pushed
Pushed == SubSeq(markers, Len(lastEvent.before) + 1, Len(markers))

\* C14: of a batch, plotMarkers and updateSidebar display no more locations
\* than it has records, every marker placed has a latitude within [-90, 90]
\* and a longitude within [-180, 180], and every card is the card of a
\* record with such coordinates.
C14_DisplayedCoordinatesValid ==
    /\ lastEvent.op = "plotMarkers"
          => /\ Len(Pushed) <= Len(lastEvent.data)
             /\ \A i \in 1..Len(Pushed) : InRange(Pushed[i].lat, Pushed[i].lon)
    /\ lastEvent.op = "updateSidebar"
          => /\ Len(sidebar.cards) <= Len(lastEvent.results)
             /\ \A i \in 1..Len(sidebar.cards) :
                   \E j \in 1..Len(lastEvent.results) :
                      /\ NameOf(lastEvent.results[j]) = sidebar.cards[i].name
                      /\ ValidCoordinates(lastEvent.results[j])

\* C15: plotMarkers pushes, after the markers it found, one marker for each
\* record of the batch whose coordinates parse, in the batch's order,
\* whatever unparseable records stand between them, and raises no notice.
C15_BadRecordDoesNotBlock ==
    lastEvent.op = "plotMarkers"
      => LET want == PlottableOf(lastEvent.data)
         IN  /\ SubSeq(markers, 1, Len(lastEvent.before)) = lastEvent.before
             /\ Len(Pushed) = Len(want)
             /\ \A i \in 1..Len(want) :
                   /\ Pushed[i].lat = parseFloatOf(unwrap(want[i]), "latitude")
                   /\ Pushed[i].lon = parseFloatOf(unwrap(want[i]), "longitude")
                   /\ Pushed[i].popupName = NameOf(want[i])
             /\ notice = NoNotice

C15_Witness ==
    /\ lastEvent.op = "plotMarkers"
    /\ lastEvent.data = <<RecBad, RecA, RecNone>>
    /\ Len(Pushed) = 1
    /\ lastEvent.before # <<>>

\* what a card shows of its record, without its rank
Unranked(cards) ==
    [i \in 1..Len(cards) |->
        [name |-> cards[i].name, serial |-> cards[i].serial,
         distance |-> cards[i].distance]]
HasDistance(c) == ~isNaN(c.distance)
Smallest(S) == CHOOSE m \in S : \A n \in S : m <= n
\* the cards at each of the distances ds, nearest first, each group in the
\* order it has in cards
RECURSIVE GroupsAscending(_, _)
GroupsAscending(cards, ds) ==
    IF ds = {} THEN <<>>
    ELSE LET m == Smallest(ds)
         IN  SelectSeq(cards, LAMBDA c : HasDistance(c) /\ c.distance.v = m)
                \o GroupsAscending(cards, ds \ {m})
ByDistanceStable(cards) ==
    GroupsAscending(cards, { cards[i].distance.v :
                               i \in { j \in 1..Len(cards) : HasDistance(cards[j]) } })
        \o SelectSeq(cards, LAMBDA c : ~HasDistance(c))

\* C16: with a search location set, the cards updateSidebar renders are in
\* non-decreasing distance, those without a distance come last, and cards of
\* equal distance, or both without one, are in their input order.
C16_SortedByDistanceStable ==
    (lastEvent.op = "updateSidebar" /\ lastSearchLocation # Null)
      => LET cards == sidebar.cards
         IN  /\ \A i, j \in 1..Len(cards) :
                   i < j => /\ HasDistance(cards[j]) => HasDistance(cards[i])
                            /\ HasDistance(cards[j])
                                  => cards[i].distance.v <= cards[j].distance.v
             /\ Unranked(cards)
                   = Unranked(ByDistanceStable(
                        processResults(lastEvent.results, lastSearchLocation)))

C16_Witness ==
    /\ lastEvent.op = "updateSidebar"
    /\ lastSearchLocation # Null
    /\ lastEvent.results = <<RecNone, RecTwin, RecA>>
    /\ Unranked(sidebar.cards)
          = << [name |-> "B", serial |-> "2", distance |-> Num(69)],
               [name |-> "A", serial |-> "7", distance |-> Num(69)],
               [name |-> "D", serial |-> "1", distance |-> NaN] >>

\* C17: with no search location, updateSidebar renders one card per input
\* record, in the input order.
C17_NoReorderWithoutLocation ==
    (lastEvent.op = "updateSidebar" /\ lastSearchLocation = Null)
      => /\ Len(sidebar.cards) = Len(lastEvent.results)
         /\ \A i \in 1..Len(sidebar.cards) :
               /\ sidebar.cards[i].name = NameOf(lastEvent.results[i])
               /\ sidebar.cards[i].index = i

C17_Witness ==
    /\ lastEvent.op = "updateSidebar"
    /\ lastSearchLocation = Null
    /\ lastEvent.results = <<RecAlias, RecBad, RecA>>
    /\ Len(sidebar.cards) = 3

\* the card has a review request in flight
Submitting(card) ==
    \E r \in Pending("review") : r.attached /\ r.card = card
InputsDisabled(c) ==
    c.submitDisabled /\ c.textareaDisabled /\ c.starsPointerEvents = "none"
InputsEnabled(c) ==
    ~c.submitDisabled /\ ~c.textareaDisabled /\ c.starsPointerEvents = "auto"
\* the step just taken is a step of this card's form
StepOf(card) == "card" \in DOMAIN lastEvent /\ lastEvent.card = card

\* C18: a click on a card's submit button while its selectedRating is 0
\* sends no review request and leaves every card as it was (draft text,
\* rating, enabled inputs, open form).
C18_SubmitWithoutRatingRejected ==
    [][\A card \in Cards :
          (/\ StepOf(card)'
           /\ lastEvent'.op = "submitClick"
           /\ sidebar.cards[card].selectedRating = 0)
             => UNCHANGED <<requests, sidebar>>]_vars

C18_Witness ==
    /\ lastEvent.op = "submitClick"
    /\ lastEvent.outcome = "alert"
    /\ sidebar.cards[lastEvent.card].formOpen
    /\ sidebar.cards[lastEvent.card].text # <<>>
    /\ sidebar.cards[lastEvent.card].selectedRating = 0

\* C19: a card with a review request in flight has its submit button, its
\* textarea and its stars disabled; a card without one has them enabled,
\* whatever the other cards are doing; a step of one card's form leaves the
\* other cards as they were.
C19_SubmittingCardLocked ==
    [][\A card \in Cards :
          /\ Submitting(card)' => InputsDisabled(sidebar'.cards[card])
          /\ ~Submitting(card)' => InputsEnabled(sidebar'.cards[card])
          /\ StepOf(card)'
                => \A other \in Cards \ {card} :
                      /\ sidebar'.cards[other] = sidebar.cards[other]
                      /\ Submitting(other)' <=> Submitting(other)]_vars

\* the second card is edited and submitted while the first is submitting
C19_Witness ==
    /\ Submitting(1) /\ Submitting(2)
    /\ lastEvent.op = "submitClick"
    /\ lastEvent.card = 2

Draft(c) == <<c.selectedRating, c.text>>

\* C20: the step in which a card's review request fails leaves the form
\* open with its inputs enabled, and from the submit click to that step the
\* card's selected rating and text do not change, so that a submit clicked
\* then posts the body that failed.
C20_FailureKeepsDraft ==
    [][\A card \in Cards :
          /\ (/\ (Submitting(card) \/ Submitting(card)')
               /\ ~(StepOf(card)' /\ lastEvent'.op = "reviewCompleted"))
                 => Draft(sidebar'.cards[card]) = Draft(sidebar.cards[card])
          /\ (StepOf(card)' /\ lastEvent'.op = "reviewRejected")
                 => /\ sidebar'.cards[card].formOpen
                    /\ InputsEnabled(sidebar'.cards[card])
                    /\ sidebar'.cards[card].submitCaption = "Submit"
                    /\ ~Submitting(card)'
                    /\ requestBody(sidebar'.cards[card])
                          = lastEvent'.req.body]_vars

C20_Witness ==
    /\ lastEvent.op = "reviewRejected"
    /\ Draft(sidebar.cards[lastEvent.card]) = <<5, <<" ", "o", "k", " ">> >>
    /\ sidebar.cards[lastEvent.card].formOpen

\* what a card shows of its result, apart from the feedback display
CardIdentity(c) == <<c.index, c.serial, c.name, c.distance>>
\* the form is closed over a reset draft with its inputs enabled
FormClosedAndReset(c) ==
    /\ ~c.formOpen /\ c.writeBtnShown
    /\ c.selectedRating = 0 /\ c.starsSelected = {} /\ c.text = <<>>
    /\ InputsEnabled(c) /\ c.submitCaption = "Submit"
\* the step completes a review of card and touches nothing but that card
CompletedInPlace(card) ==
    /\ Len(sidebar'.cards) = Len(sidebar.cards)
    /\ sidebar'.view = sidebar.view
    /\ CardIdentity(sidebar'.cards[card]) = CardIdentity(sidebar.cards[card])
    /\ \A other \in Cards \ {card} :
          sidebar'.cards[other] = sidebar.cards[other]
    /\ FormClosedAndReset(sidebar'.cards[card])

\* C21 as stated: the step that completes a successful review of a card
\* makes the card's displayed rating and displayed feedback the review and
\* the feedback of the request, leaves the other cards and the list as they
\* were, and leaves the card's form closed, reset and enabled.
C21_DisplayBecomesSubmitted ==
    [][\A card \in Cards :
          (StepOf(card)' /\ lastEvent'.op = "reviewCompleted")
             => /\ sidebar'.cards[card].ratingDisplay = lastEvent'.req.body.review
                /\ sidebar'.cards[card].feedbackDisplay
                      = lastEvent'.req.body.feedback
                /\ CompletedInPlace(card)]_vars

\* C21 amended: as above, but a review whose feedback is empty after
\* trimming leaves the display showing the no-feedback text.
C21_DisplayShowsSubmitted ==
    [][\A card \in Cards :
          (StepOf(card)' /\ lastEvent'.op = "reviewCompleted")
             => /\ sidebar'.cards[card].ratingDisplay = lastEvent'.req.body.review
                /\ sidebar'.cards[card].feedbackDisplay
                      = IF lastEvent'.req.body.feedback # <<>>
                        THEN lastEvent'.req.body.feedback
                        ELSE NoFeedbackYet
                /\ CompletedInPlace(card)]_vars

\* the first card's review with feedback completes while the second card's
\* form is open
C21_Witness ==
    /\ lastEvent.op = "reviewCompleted"
    /\ lastEvent.card = 1
    /\ sidebar.cards[1].ratingDisplay = 5
    /\ sidebar.cards[1].feedbackDisplay = <<"o", "k">>
    /\ FormClosedAndReset(sidebar.cards[1])
    /\ sidebar.cards[2].formOpen

(***************************************************************************)
(* The feedback forms of the rendered list while the Update Map button is  *)
(* used: the steps of FeedbackSpec together with the click on the button   *)
(* and the settling of its POST, which raise and lower isLoading.          *)
(***************************************************************************)
LoadingFeedbackNext ==
    \/ FeedbackNext
    \/ UpdateClick
    \/ UpdateResolved
    \/ UpdateRejected

LoadingFeedbackSpec == FeedbackInit /\ [][LoadingFeedbackNext]_vars

\* the steps of a card's submit listener
SubmissionOps == {"submitClick", "reviewResolved", "reviewCompleted",
                  "reviewRejected"}
\* the card's submit button takes a click that will post
CanSubmit(c) == c.formOpen /\ ~c.submitDisabled /\ c.selectedRating # 0
\* a click on the card's submit button that posts a review request
SubmitPosts(card) ==
    /\ SubmitClick
    /\ lastEvent'.card = card
    /\ lastEvent'.outcome = "posted"
    /\ Submitting(card)'

\* C22: a card whose form is open with a rating selected and its button
\* enabled can post its review whatever isLoading is and whatever review
\* requests the other cards have in flight, and no step of a submit
\* listener changes isLoading, the loading indicator or the disabled state
\* of the search and update buttons.
C22_SubmitIgnoresLoadingGuard ==
    /\ [](\A card \in Cards :
             CanSubmit(sidebar.cards[card]) => ENABLED SubmitPosts(card))
    /\ [][lastEvent'.op \in SubmissionOps => UNCHANGED loadingVars]_vars

\* the second card posts while the first card's request and a POST /update
\* are in flight
C22_Witness ==
    /\ isLoading /\ searchBtnDisabled /\ updateMapBtnDisabled
    /\ Pending("update") # {}
    /\ lastEvent.op = "submitClick"
    /\ lastEvent.card = 2
    /\ lastEvent.outcome = "posted"
    /\ Submitting(1) /\ Submitting(2)

LoadAndUpdateOps == {"DOMContentLoaded", "reloadTimer", "loadResolved",
                     "loadRejected", "handleUpdateMap", "updateResolved",
                     "updateRejected"}
\* the step in which a geocode request settled with a match
GeocodeMatched(e) ==
    e.op = "geocoded" /\ e.resp.ok /\ e.resp.data # <<>>

\* C24: lastSearchLocation starts as null and leaves null only in a step
\* in which a geocode request settles with a match; once it is not null no
\* step makes it null; the steps of loadAllPins and of handleUpdateMap leave
\* it as it was.
C24_ReferencePointPersists ==
    /\ lastSearchLocation = Null
    /\ [][/\ (lastSearchLocation = Null /\ lastSearchLocation' # Null)
                => GeocodeMatched(lastEvent')
          /\ lastSearchLocation # Null => lastSearchLocation' # Null
          /\ lastEvent'.op \in LoadAndUpdateOps
                => UNCHANGED lastSearchLocation]_vars

\* a reload scheduled by handleUpdateMap has completed after a search set
\* the reference point
C24_Witness ==
    /\ lastEvent.op = "loadResolved"
    /\ lastEvent.id > 1
    /\ lastSearchLocation = [lat |-> Num(335), lon |-> Num(-868)]

\* the point of the last search that succeeded: the centre of the radius
\* circle, which only a completed search draws
LastSuccessfulPoint ==
    IF searchCircle = Null THEN Null
    ELSE [lat |-> searchCircle.lat, lon |-> searchCircle.lon]

\* C25: the step that completes a search sets lastSearchLocation to the
\* point that search geocoded; the step in which a search's geocoding
\* misses leaves lastSearchLocation as it was; and the step in which a
\* search's query fails leaves lastSearchLocation at the value searches
\* that succeeded gave it (null when none has), not at the failed search's
\* point.
C25_OnlySuccessfulSearchReplaces ==
    [][/\ lastEvent'.op = "searchResolved"
            => lastSearchLocation' = [lat |-> lastEvent'.req.geo.lat,
                                      lon |-> lastEvent'.req.geo.lon]
       /\ (lastEvent'.op = "geocoded" /\ ~GeocodeMatched(lastEvent'))
            => UNCHANGED lastSearchLocation
       /\ (lastEvent'.op = "searchRejected" /\ SearchRequests' = {})
            => lastSearchLocation' = LastSuccessfulPoint']_vars

\* C26: the step in which a search's query resolves with an empty list
\* leaves the sidebar in the no-results state and the map without location
\* markers, and, when an earlier search had drawn a radius circle and a
\* search-point highlight, leaves that circle and that highlight on the map.
C26_EmptyResultKeepsPriorOverlay ==
    [][(lastEvent'.op = "searchResolved" /\ lastEvent'.data = <<>>)
          => /\ sidebar'.view = "empty"
             /\ sidebar'.cards = <<>>
             /\ markers' = <<>>
             /\ searchCircle # Null
                   => UNCHANGED <<searchCircle, searchLocationMarker,
                                  overlayLayers>>]_vars

\* the GET /data requests the step issues
NewDataRequests == Pending("data")' \ Pending("data")

\* C27: the step in which POST /update succeeds issues no GET /data and
\* schedules one reload; a scheduled reload is eventually run (as long as
\* the model's bound on invocations leaves room for it), and running it
\* issues exactly one GET /data and consumes the schedule; nothing else
\* schedules or consumes a reload, and no other step after page load issues
\* a GET /data.  The step in which POST /update fails schedules nothing,
\* issues nothing and shows the update-failed notice.
C27_ReloadOnceAfterUpdate ==
    /\ [][/\ lastEvent'.op = "updateResolved"
               => /\ timers' = timers + 1
                  /\ NewDataRequests = {}
          /\ lastEvent'.op = "updateRejected"
               => /\ timers' = timers
                  /\ NewDataRequests = {}
                  /\ notice' = showError(MsgUpdateFailed)
          /\ lastEvent'.op = "reloadTimer"
               => /\ timers' = timers - 1
                  /\ Cardinality(NewDataRequests) = 1
          /\ lastEvent'.op \notin {"updateResolved", "reloadTimer"}
               => timers' = timers
          /\ lastEvent'.op \notin {"DOMContentLoaded", "reloadTimer"}
               => NewDataRequests = {}]_vars
    /\ (timers > 0) ~> (lastEvent.op = "reloadTimer" \/ nextId > MaxOps)

\* the reload of a successful update has issued its GET /data
C27_Witness ==
    /\ lastEvent.op = "reloadTimer"
    /\ timers = 0
    /\ \E r \in Pending("data") : r.id = lastEvent.id /\ r.id > 1

\* a string of the model: a tuple of one-character strings
IsText(t) == DOMAIN t = 1..Len(t) /\ \A i \in 1..Len(t) : t[i] \in STRING

\* C28: every review request in flight, whatever openings, star clicks,
\* submits, failures and completions came before it, has a body whose
\* serial is the string serial of its card, whose review is an integer from
\* 1 to 5 and whose feedback is a string.
C28_ReviewBodyWellFormed ==
    \A r \in Pending("review") :
       /\ DOMAIN r.body = {"serial", "review", "feedback"}
       /\ r.body.serial \in STRING
       /\ r.body.serial = sidebar.cards[r.card].serial
       /\ r.body.review \in 1..5
       /\ IsText(r.body.feedback)

\* the first card, reviewed once already with 2 stars, is submitting again
\* with 5 stars while the second card submits 2 stars without a text
C28_Witness ==
    /\ sidebar.cards[1].ratingDisplay = 2
    /\ \E r \in Pending("review") :
          /\ r.card = 1
          /\ r.body = [serial |-> sidebar.cards[1].serial, review |-> 5,
                       feedback |-> <<"o", "k">>]
    /\ \E r \in Pending("review") :
          /\ r.card = 2
          /\ r.body.review = 2
          /\ r.body.feedback = <<>>

\* C29: after updateSidebar has rendered a batch, the card at position i
\* of the list shows rank i, for every i from 1 to the number of records,
\* whether the cards are in the input order or were sorted by distance.
C29_RankIsPosition ==
    lastEvent.op = "updateSidebar"
      => /\ Len(sidebar.cards) = Len(lastEvent.results)
         /\ \A i \in 1..Len(sidebar.cards) : sidebar.cards[i].index = i

\* the sort moved the first record of the batch behind the other two
C29_Witness ==
    /\ lastEvent.op = "updateSidebar"
    /\ lastEvent.results = <<RecNone, RecTwin, RecA>>
    /\ lastSearchLocation # Null
    /\ << sidebar.cards[1].name, sidebar.cards[2].name, sidebar.cards[3].name >>
          = << "B", "A", "D" >>
    /\ << sidebar.cards[1].index, sidebar.cards[2].index,
          sidebar.cards[3].index >> = << 1, 2, 3 >>

\* the highest of the highlighted stars, 0 when none is highlighted
Highest(S) == IF S = {} THEN 0 ELSE CHOOSE m \in S : \A n \in S : n <= m

\* C30: for every card, a second click on the same star leaves the card as
\* the first click left it; selectedRating is an integer from 0 to 5, the
\* highlighted stars are exactly the stars 1..selectedRating, so that
\* selectedRating is the highest highlighted star; and after a click on
\* star i the selectedRating is i.
C30_StarSelectionIdempotent ==
    \A card \in Cards :
       LET c == sidebar.cards[card]
       IN  /\ \A i \in 1..5 : starClick(starClick(c, i), i) = starClick(c, i)
           /\ c.selectedRating \in 0..5
           /\ c.starsSelected = 1..c.selectedRating
           /\ c.selectedRating = Highest(c.starsSelected)
           /\ (StepOf(card) /\ lastEvent.op = "starClick")
                 => c.selectedRating = lastEvent.star

\* star 2 of the first card was clicked while the second card has 5 stars
C30_Witness ==
    /\ lastEvent.op = "starClick"
    /\ lastEvent.card = 1
    /\ lastEvent.star = 2
    /\ sidebar.cards[1].starsSelected = {1, 2}
    /\ sidebar.cards[2].selectedRating = 5

\* the value of the first of the fields that the record has and that is
\* not the empty string, parsed; NaN when there is none
RECURSIVE parseFloatOfFirstNonEmpty(_, _)
parseFloatOfFirstNonEmpty(rec, fields) ==
    IF fields = <<>> THEN NaN
    ELSE IF Head(fields) \in DOMAIN rec /\ rec[Head(fields)] # <<>>
         THEN parseFloat(rec[Head(fields)])
         ELSE parseFloatOfFirstNonEmpty(rec, Tail(fields))
\* the coordinates of a record by the alias order latitude, Latitude, lat,
\* Lat and longitude, Longitude, lon, Lon
AliasLat(raw) ==
    parseFloatOfFirstNonEmpty(unwrap(raw),
                              <<"latitude", "Latitude", "lat", "Lat">>)
AliasLon(raw) ==
    parseFloatOfFirstNonEmpty(unwrap(raw),
                              <<"longitude", "Longitude", "lon", "Lon">>)
AliasPlottable(raw) == ~isNaN(AliasLat(raw)) /\ ~isNaN(AliasLon(raw))

\* C31: plotMarkers places, for each record of the batch whose coordinates
\* resolve through the aliases latitude, Latitude, lat, Lat (longitude,
\* Longitude, lon, Lon), a marker at the resolved coordinates, and
\* updateSidebar, with a search location set, shows for each such record
\* the distance from the search location to the resolved coordinates.
C31_CoordinateAliasOrder ==
    /\ lastEvent.op = "plotMarkers"
          => LET want == SelectSeq(lastEvent.data, AliasPlottable)
             IN  /\ Len(Pushed) = Len(want)
                 /\ \A i \in 1..Len(want) :
                       /\ Pushed[i].lat = AliasLat(want[i])
                       /\ Pushed[i].lon = AliasLon(want[i])
    /\ (lastEvent.op = "updateSidebar" /\ lastSearchLocation # Null)
          => \A j \in 1..Len(lastEvent.results) :
                LET raw == lastEvent.results[j]
                IN  (AliasPlottable(raw) /\ InRange(AliasLat(raw), AliasLon(raw)))
                      => \E i \in 1..Len(sidebar.cards) :
                            /\ sidebar.cards[i].name = NameOf(raw)
                            /\ sidebar.cards[i].distance =
                                  Num(calculateDistance(
                                        lastSearchLocation.lat.v,
                                        lastSearchLocation.lon.v,
                                        AliasLat(raw).v, AliasLon(raw).v))

\* the serial the record carries itself, or its 1-based position in the
\* batch as a string
SerialIdOf(results, j) ==
    LET rec == unwrap(results[j])
        own == { f \in {"serial", "Serial", "Serial No.", "Serial No",
                        "serial_no"} : f \in DOMAIN rec }
    IN  IF own # {} THEN rec[CHOOSE f \in own : TRUE] ELSE ToString(j)
\* the position in the batch of the record a card shows
PositionOf(results, c) ==
    CHOOSE j \in 1..Len(results) : NameOf(results[j]) = c.name

\* C32: in the list rendered from the batch RecAlias, RecA, every card has
\* as serial its record's own serial, or else the string of the record's
\* position in the batch, whatever rank the sort gave the card, and every
\* review request of the card carries that serial.
C32_SerialIsExplicitOrPosition ==
    \A card \in Cards :
       LET c  == sidebar.cards[card]
           id == SerialIdOf(ReorderedResults, PositionOf(ReorderedResults, c))
       IN  /\ c.serial = id
           /\ \A r \in Pending("review") :
                 r.card = card => r.body.serial = id

\* the record without a serial, first in the batch and shown with rank 2,
\* has a review in flight that carries the serial "1"
C32_Witness ==
    /\ sidebar.cards[2].name = "C"
    /\ sidebar.cards[2].index = 2
    /\ \E r \in Pending("review") : r.card = 2 /\ r.body.serial = "1"
    /\ \E r \in Pending("review") : r.card = 1 /\ r.body.serial = "7"

\* C33: no marker that plotMarkers places has the word "undefined" as its
\* popup's name, business name, type, address, email link, email text,
\* contact or rates.
C33_PopupNeverUndefined ==
    lastEvent.op = "plotMarkers"
      => \A i \in 1..Len(Pushed) :
            /\ Pushed[i].popupName # "undefined"
            /\ \A f \in DOMAIN Pushed[i].popup :
                  Pushed[i].popup[f] # "undefined"

\* the card is in its editor with no review request in flight
Editing(card) == sidebar.cards[card].formOpen /\ ~Submitting(card)
\* a step that closes the card's editor and sends nothing
CancelOf(card) ==
    /\ FeedbackNext
    /\ sidebar.cards[card].formOpen
    /\ ~sidebar'.cards[card].formOpen
    /\ sidebar'.cards[card].writeBtnShown
    /\ requests' = requests

\* C34: the click that opens a card's editor leaves it with selectedRating
\* 0, no star highlighted and an empty text, and whenever a card is in its
\* editor with no request in flight the page can take a step that closes
\* the editor without sending a request.
C34_DraftDiscardedOnCancel ==
    /\ [][\A card \in Cards :
             (StepOf(card)' /\ lastEvent'.op = "writeFeedbackClick"
                /\ sidebar'.cards[card].formOpen)
               => /\ sidebar'.cards[card].selectedRating = 0
                  /\ sidebar'.cards[card].starsSelected = {}
                  /\ sidebar'.cards[card].text = <<>>]_vars
    /\ [](\A card \in Cards : Editing(card) => ENABLED CancelOf(card))

\* C35: none of the steps of a search whose query fails (the call of
\* handleSearch, the settling of its geocode request, the rejection of its
\* POST /query) changes the markers, the radius circle, the search-point
\* highlight, the overlays on the map or the sidebar; the rejection shows
\* the search-failed notice and ends the loading state.
C35_FailedQueryChangesOnlyNotice ==
    [][/\ lastEvent'.op \in {"handleSearch", "geocoded", "searchRejected"}
            => UNCHANGED <<markers, searchCircle, searchLocationMarker,
                           overlayLayers, sidebar>>
       /\ lastEvent'.op = "searchRejected"
            => /\ notice' = showError(MsgSearchFailed)
               /\ \A r \in requests' : r.id # lastEvent'.id]_vars

\* a search's query has failed on a page that shows the markers, the
\* cards, the circle and the highlight of an earlier search
C35_Witness ==
    /\ lastEvent.op = "searchRejected"
    /\ markers # <<>>
    /\ sidebar.view = "cards"
    /\ searchCircle # Null
    /\ searchLocationMarker # Null
    /\ notice = showError(MsgSearchFailed)

\* C36: when the sidebar has been rendered anew since a card's review was
\* submitted, the steps in which that review's request resolves, completes
\* after the wait, or rejects leave the sidebar, with all of its new cards,
\* as it was.
C36_StaleCompletionLeavesNewCards ==
    [][\A r \in Pending("review") \ requests' :
          ~r.attached => UNCHANGED sidebar]_vars

\* a review submitted on the first card of the old list has completed
\* after a new search rendered a list with a card in the first place, and
\* that card shows no rating, no feedback and a closed, enabled form
C36_Witness ==
    /\ lastEvent.op = "reviewCompleted"
    /\ ~lastEvent.req.attached
    /\ lastEvent.req.card = 1
    /\ sidebar.view = "cards"
    /\ sidebar.cards[1].ratingDisplay = 0
    /\ sidebar.cards[1].feedbackDisplay = NoFeedbackYet
    /\ sidebar.cards[1].writeBtnShown
    /\ InputsEnabled(sidebar.cards[1])

SerialFields == {"serial", "Serial", "Serial No.", "Serial No", "serial_no"}
HasOwnSerial(raw) == SerialFields \cap DOMAIN unwrap(raw) # {}
\* the records of the batch that carry a serial carry different ones
OwnSerialsDistinct(results) ==
    \A i, j \in 1..Len(results) :
       (i # j /\ HasOwnSerial(results[i]) /\ HasOwnSerial(results[j]))
          => SerialIdOf(results, i) # SerialIdOf(results, j)

\* C37: when the serials that the records of a batch carry themselves are
\* pairwise different, the cards updateSidebar renders from the batch have
\* pairwise different serials, and so have the bodies their review
\* submissions would post, also when other records of the batch get their
\* serial from their position.
C37_SerialsDistinctInList ==
    (lastEvent.op = "updateSidebar" /\ OwnSerialsDistinct(lastEvent.results))
      => \A i, j \in 1..Len(sidebar.cards) :
            i # j => /\ sidebar.cards[i].serial # sidebar.cards[j].serial
                     /\ requestBody(sidebar.cards[i]).serial
                           # requestBody(sidebar.cards[j]).serial

=============================================================================
